---- MODULE Spec2Model ----
(***************************************************************************)
(* A model of two parts of stress-ng:                                      *)
(*   core-affinity.c  - stress_set_cpu_affinity (parse a CPU list, bind    *)
(*                      the process, cache the set) and stress_change_cpu  *)
(*                      (migrate away from a CPU);                         *)
(*   stress-memcpy.c  - the copy/move primitives, the checking wrappers,   *)
(*                      the eight-step pattern and the "all" dispatcher.   *)
(* Strings are sequences of one-character strings; a cpu_set_t is a set of *)
(* integers; memory is a function from addresses to bytes.                 *)
(***************************************************************************)
EXTENDS Integers, Sequences, FiniteSets, TLC

\* ------------------------------------------------------------------ bounds

\* The number of configured processors of the modelled host
\* (stress_get_processors_configured()).
MaxCpus == 4
\* The longest arbitrary argument string that is enumerated.
MaxLen == 3
\* The most items of a grammar-conforming list that are enumerated.
MaxItems == 2
\* MEMCPY_MEMSIZE, the size of each of str1, str2 and str3 (2048 in the
\* source), scaled down.
MEMCPY_MEMSIZE == 5
\* The offset 64 of the pattern's two wide moves, scaled down with it.
Off64 == 2
\* ALIGN_SIZE, the bytes of str3 that stress_rndbuf seeds (64 in the source).
ALIGN_SIZE == 2
\* MEMCPY_LOOPS, the pattern's repetitions per method call (1024 in the source).
MEMCPY_LOOPS == 2
\* The most method calls of one stressor run (the harness's bogo-op limit).
MaxCalls == 11
\* The size of the memory the naive move is tried on alone.
MoveLen == 5

\* The byte values of the model.
Byte == {0, 1}

\* ----------------------------------------------------------------- strings

DigitChars == <<"0", "1", "2", "3", "4", "5", "6", "7", "8", "9">>

IsDigit(c) == \E i \in 1..Len(DigitChars) : DigitChars[i] = c

DigitVal(c) == (CHOOSE i \in 1..Len(DigitChars) : DigitChars[i] = c) - 1

\* isspace(), over the characters of the model's alphabet
IsSpace(c) == c = " "

\* The decimal string of a non-negative number.
RECURSIVE Str(_)
Str(n) == IF n < Len(DigitChars) THEN <<DigitChars[n + 1]>>
          ELSE Str(n \div Len(DigitChars)) \o <<DigitChars[(n % Len(DigitChars)) + 1]>>

RECURSIVE SkipSpace(_)
SkipSpace(s) == IF s # <<>> /\ IsSpace(Head(s)) THEN SkipSpace(Tail(s)) ELSE s

RECURSIVE ScanDigits(_, _)
ScanDigits(s, acc) ==
    IF s # <<>> /\ IsDigit(Head(s))
    THEN ScanDigits(Tail(s), acc * Len(DigitChars) + DigitVal(Head(s)))
    ELSE acc

\* sscanf(str, "%d", &val): white space is skipped, a sign is optional, at
\* least one digit is needed, and the conversion stops at the first character
\* that is no digit (what follows is not looked at).  n is sscanf's return.
sscanf_d(str) ==
    LET s == SkipSpace(str)
        signed == s # <<>> /\ Head(s) \in {"-", "+"}
        d == IF signed THEN Tail(s) ELSE s
        mag == ScanDigits(d, 0)
    IN  IF d # <<>> /\ IsDigit(Head(d))
        THEN [n |-> 1, val |-> IF s # <<>> /\ Head(s) = "-" THEN 0 - mag ELSE mag]
        ELSE [n |-> IF s = <<>> THEN -1 ELSE 0, val |-> 0]

\* strtok(str, ","): the tokens of str, in order.  Runs of delimiters count as
\* one delimiter and leading and trailing delimiters are dropped, so no token
\* is empty.
RECURSIVE strtok(_, _, _)
strtok(s, cur, acc) ==
    IF s = <<>>
    THEN IF cur = <<>> THEN acc ELSE Append(acc, cur)
    ELSE IF Head(s) = ","
         THEN strtok(Tail(s), <<>>, IF cur = <<>> THEN acc ELSE Append(acc, cur))
         ELSE strtok(Tail(s), Append(cur, Head(s)), acc)

\* strstr(token, "-"): the position of the first '-' of token, 0 for NULL.
strstr_dash(token) ==
    IF \E i \in 1..Len(token) : token[i] = "-"
    THEN CHOOSE i \in 1..Len(token) :
            token[i] = "-" /\ \A j \in 1..(i - 1) : token[j] # "-"
    ELSE 0

\* --------------------------------------------------------- core-affinity.c

\* stress_check_cpu_affinity_range(): TRUE when it returns, FALSE when it
\* prints the diagnostic and calls _exit(EXIT_FAILURE).
stress_check_cpu_affinity_range(max, cpu) ==
    ~((cpu < 0) \/ ((max # -1) /\ (cpu >= max)))

\* stress_parse_cpu(): the number, or exit when sscanf converts nothing.
stress_parse_cpu(str) ==
    LET r == sscanf_d(str)
    IN  [exit |-> r.n # 1, val |-> r.val]

\* for (i = lo; i <= hi; i++) CPU_SET(i, &set)
CpuRangeShort(lo, hi) == lo..(hi - 1)
CpuRange(lo, hi) == lo..hi

\* The body of the token loop of stress_set_cpu_affinity for one token:
\* exit, or the set with the token's CPUs added.
ParseToken(token, max, set) ==
    LET lo_r == stress_parse_cpu(token)
        k == strstr_dash(token)
        rest == SubSeq(token, k + 1, Len(token))
        hi_r == IF k = 0 THEN lo_r ELSE stress_parse_cpu(rest)
        lo == lo_r.val
        hi == hi_r.val
    IN  IF lo_r.exit THEN [exit |-> TRUE, set |-> set]
        ELSE IF k # 0 /\ rest = <<>> THEN [exit |-> TRUE, set |-> set]
        ELSE IF k # 0 /\ hi_r.exit THEN [exit |-> TRUE, set |-> set]
        ELSE IF k # 0 /\ hi < lo THEN [exit |-> TRUE, set |-> set]
        ELSE IF ~stress_check_cpu_affinity_range(max, lo) THEN [exit |-> TRUE, set |-> set]
        ELSE IF ~stress_check_cpu_affinity_range(max, hi) THEN [exit |-> TRUE, set |-> set]
        ELSE [exit |-> FALSE, set |-> set \cup CpuRange(lo, hi)]

\* The token loop: every token in turn, stopping at the first exit.
RECURSIVE ParseTokens(_, _, _)
ParseTokens(tokens, max, set) ==
    IF tokens = <<>> THEN [exit |-> FALSE, set |-> set]
    ELSE LET r == ParseToken(Head(tokens), max, set)
         IN  IF r.exit THEN r ELSE ParseTokens(Tail(tokens), max, r.set)

\* CPU_ZERO(&set), then the loop over strtok's tokens.
ParseArg(str, max) == ParseTokens(strtok(str, <<>>, <<>>), max, {})

\* The CPUs the kernel can run the process on.
Online(max) == 0..(max - 1)

\* sched_setaffinity(): the kernel refuses a mask that holds no CPU it can
\* use (EINVAL), and may refuse any other (EPERM, a cpuset, ...).
KernelMustRefuse(mask, max) == mask \cap Online(max) = {}

\* shim_memcpy(&stress_affinity_cpu_set, &set, ...) is reached only when
\* sched_setaffinity() did not fail.
CacheAlways(accepted, set, old) == set
CacheAfterBind(accepted, set, old) == IF accepted THEN set ELSE old

\* if (CPU_COUNT(&mask) > 1) CPU_CLR(from_cpu, &mask)
ClearAlways(mask, from_cpu) == mask \ {from_cpu}
ClearNever(mask, from_cpu) == mask
ClearFromCpu(mask, from_cpu) ==
    IF Cardinality(mask) > 1 THEN mask \ {from_cpu} ELSE mask

\* return (int)from_cpu, when sched_setaffinity() failed
RefusedReturnsOld(old_cpu, from_cpu) == old_cpu
RefusedReturn(old_cpu, from_cpu) == from_cpu

\* --------------------------------------------------------- stress-memcpy.c

\* Memory is a function from addresses to bytes; a pointer is an address.  A
\* primitive gives the memory it leaves and the pointer it returns.

\* memcpy() and memmove() of the C library (and the compiler's builtins):
\* dest[0..n) becomes what src[0..n) held before the call.  The pattern calls
\* memcpy on disjoint regions only.
libc_copy(mem, dest, src, n) ==
    [mem |-> [a \in DOMAIN mem |->
                 IF a >= dest /\ a < dest + n THEN mem[src + (a - dest)] ELSE mem[a]],
     ret |-> dest]

\* for (i = 0; i < n; i++) *(cdest++) = *(csrc++);
RECURSIVE ForwardLoop(_, _, _, _, _)
ForwardLoop(mem, cdest, csrc, i, n) ==
    IF i < n
    THEN ForwardLoop([mem EXCEPT ![cdest] = mem[csrc]], cdest + 1, csrc + 1, i + 1, n)
    ELSE mem

\* for (i = 0; i < n; i++) *(--cdest) = *(--csrc);
RECURSIVE ReverseLoop(_, _, _, _, _)
ReverseLoop(mem, cdest, csrc, i, n) ==
    IF i < n
    THEN ReverseLoop([mem EXCEPT ![cdest - 1] = mem[csrc - 1]], cdest - 1, csrc - 1, i + 1, n)
    ELSE mem

\* TEST_NAIVE_MEMCPY
test_naive_memcpy(mem, dest, src, n) ==
    [mem |-> ForwardLoop(mem, dest, src, 0, n), ret |-> dest]

\* TEST_NAIVE_MEMMOVE: forward when dest < src, from the end otherwise.
test_naive_memmove_forward(mem, dest, src, n) ==
    [mem |-> ForwardLoop(mem, dest, src, 0, n), ret |-> dest]
test_naive_memmove(mem, dest, src, n) ==
    [mem |-> IF dest < src THEN ForwardLoop(mem, dest, src, 0, n)
             ELSE ReverseLoop(mem, dest + n, src + n, 0, n),
     ret |-> dest]

\* The method table, in its order.
stress_memcpy_methods ==
    <<"all", "libc", "builtin", "naive", "naive_o0", "naive_o1", "naive_o2", "naive_o3">>

MethodNames == {stress_memcpy_methods[i] : i \in 1..Len(stress_memcpy_methods)}

NaiveNames == {"naive", "naive_o0", "naive_o1", "naive_o2", "naive_o3"}

\* The copy and the move a method's pattern is compiled with: the naive
\* methods use the byte loops (the same source at five optimisation levels),
\* libc and builtin the library's.
MethodCopy(name, mem, dest, src, n) ==
    IF name \in NaiveNames THEN test_naive_memcpy(mem, dest, src, n)
    ELSE libc_copy(mem, dest, src, n)

MethodMove(name, mem, dest, src, n) ==
    IF name \in NaiveNames THEN test_naive_memmove(mem, dest, src, n)
    ELSE libc_copy(mem, dest, src, n)

\* memcmp(dest, src, n) != 0, on the memory as it is after the operation
ContentDiffers(mem, dest, src, n) ==
    \E i \in 0..(n - 1) : mem[dest + i] # mem[src + i]

\* memcpy_check_func / memmove_check_func (check is TRUE) and the no_check
\* forwarders (FALSE): the memory after the operation r, and the reports so
\* far with this step's added.  st is [mem, content, retptr].
CheckFunc(check, st, r, dest, src, n, step) ==
    [mem |-> r.mem,
     content |-> IF check /\ ContentDiffers(r.mem, dest, src, n)
                 THEN st.content \cup {step} ELSE st.content,
     retptr |-> IF check /\ r.ret # dest
                THEN st.retptr \cup {step} ELSE st.retptr]

\* The eight operations of a method's loop body, in order: memcpy_check
\* (copy) or memmove_check (move) of n bytes from src to dest.
PatternOpsWideLast(str1, str2, str3) ==
    << [copy |-> TRUE,  dest |-> str3,         src |-> str2,         n |-> MEMCPY_MEMSIZE],
       [copy |-> TRUE,  dest |-> str2,         src |-> str3,         n |-> MEMCPY_MEMSIZE \div 2],
       [copy |-> FALSE, dest |-> str3,         src |-> str3 + Off64, n |-> MEMCPY_MEMSIZE - Off64],
       [copy |-> TRUE,  dest |-> str1,         src |-> str2,         n |-> MEMCPY_MEMSIZE],
       [copy |-> FALSE, dest |-> str3 + Off64, src |-> str3,         n |-> MEMCPY_MEMSIZE - Off64],
       [copy |-> TRUE,  dest |-> str3,         src |-> str1,         n |-> MEMCPY_MEMSIZE],
       [copy |-> FALSE, dest |-> str3 + 1,     src |-> str3,         n |-> MEMCPY_MEMSIZE - 1],
       [copy |-> FALSE, dest |-> str3,         src |-> str3 + Off64, n |-> MEMCPY_MEMSIZE - Off64] >>
PatternOps(str1, str2, str3) ==
    << [copy |-> TRUE,  dest |-> str3,         src |-> str2,         n |-> MEMCPY_MEMSIZE],
       [copy |-> TRUE,  dest |-> str2,         src |-> str3,         n |-> MEMCPY_MEMSIZE \div 2],
       [copy |-> FALSE, dest |-> str3,         src |-> str3 + Off64, n |-> MEMCPY_MEMSIZE - Off64],
       [copy |-> TRUE,  dest |-> str1,         src |-> str2,         n |-> MEMCPY_MEMSIZE],
       [copy |-> FALSE, dest |-> str3 + Off64, src |-> str3,         n |-> MEMCPY_MEMSIZE - Off64],
       [copy |-> TRUE,  dest |-> str3,         src |-> str1,         n |-> MEMCPY_MEMSIZE],
       [copy |-> FALSE, dest |-> str3 + 1,     src |-> str3,         n |-> MEMCPY_MEMSIZE - 1],
       [copy |-> FALSE, dest |-> str3,         src |-> str3 + 1,     n |-> MEMCPY_MEMSIZE - 1] >>

\* One operation through its wrapper.
ApplyOp(name, check, st, op, step) ==
    CheckFunc(check, st,
              IF op.copy THEN MethodCopy(name, st.mem, op.dest, op.src, op.n)
              ELSE MethodMove(name, st.mem, op.dest, op.src, op.n),
              op.dest, op.src, op.n, step)

\* F of the value of v: v is evaluated before F is entered (a statement that
\* has run before the next one starts).
AndThen(v, F(_)) == CHOOSE r \in {F(x) : x \in {v}} : TRUE

\* One pass of the loop body: the operations from the step-th on.
RECURSIVE PatternPass(_, _, _, _, _)
PatternPass(name, check, st, ops, step) ==
    IF step > Len(ops) THEN st
    ELSE LET Rest(x) == PatternPass(name, check, x, ops, step + 1)
         IN  AndThen(ApplyOp(name, check, st, ops[step], step), Rest)

\* for (i = 0; i < MEMCPY_LOOPS; i++) { the eight operations }
RECURSIVE PatternLoop(_, _, _, _, _, _, _)
PatternLoop(name, check, st, str1, str2, str3, loop) ==
    IF loop < MEMCPY_LOOPS
    THEN LET Rest(x) == PatternLoop(name, check, x, str1, str2, str3, loop + 1)
         IN  AndThen(PatternPass(name, check, st, PatternOps(str1, str2, str3), 1), Rest)
    ELSE st

\* stress_memcpy_libc, stress_memcpy_builtin and the STRESS_MEMCPY_NAIVE
\* functions: the loop, from a memory and no reports.
MethodFunc(name, check, mem, str1, str2, str3) ==
    PatternLoop(name, check, [mem |-> mem, content |-> {}, retptr |-> {}],
                str1, str2, str3, 0)

\* stress_memcpy_all's switch: the method called for a value of whence ...
stress_memcpy_all_callee(w) ==
    CASE w = 0 -> "libc"
      [] w = 1 -> "builtin"
      [] w = 2 -> "naive"
      [] w = 3 -> "naive_o0"
      [] OTHER -> "naive_o3"

\* ... and the value of whence it leaves.
stress_memcpy_all_never_wraps(w) == w + 1
stress_memcpy_all_whence(w) == IF w \in 0..3 THEN w + 1 ELSE 0

\* ------------------------------------------------------------------- state

VARIABLES
    max_cpus,                 \* stress_get_processors_configured()
    arg,                      \* the taskset argument
    items,                    \* the <<lo, hi>> items arg was written from, when it was
    proc,                     \* "start" (taskset still to be parsed), "bound",
                              \* "unbound" (running, no taskset given),
                              \* "exit_invalid", "exit_kernel" (_exit was called)
    stress_affinity_cpu_set,  \* the cached set (static, zero until written)
    kmask,                    \* the kernel's affinity mask of the process
    cur_cpu,                  \* the CPU the process runs on (stress_get_cpu())
    opt_change_cpu,           \* g_opt_flags & OPT_FLAGS_CHANGE_CPU
    last,                     \* the last call of stress_change_cpu, as observed
    buf,                      \* the mapped region: str1, str2, str3 in a row
    method,                   \* the "memcpy-method" setting
    verify,                   \* g_opt_flags & OPT_FLAGS_VERIFY, as latched into
                              \* memcpy_check and memmove_check
    whence,                   \* stress_memcpy_all's static cursor
    s_method_name,            \* the name the running method stored
    calls,                    \* the method calls made (inc_counter)
    fails,                    \* the pr_fail reports of the last method call
    mt                        \* one call of the naive move on a memory of its own

affinity_vars == <<max_cpus, arg, items, proc, stress_affinity_cpu_set, kmask,
                   cur_cpu, opt_change_cpu, last>>

memcpy_vars == <<buf, method, verify, whence, s_method_name, calls, fails>>

vars == <<affinity_vars, memcpy_vars, mt>>

\* last: the argument and the return value of the call, what it asked of the
\* kernel (query: sched_getaffinity, applied: sched_setaffinity, handed: the
\* mask given to it) and the state it started from.
NoCall == [called |-> FALSE, enabled |-> FALSE, old_cpu |-> 0, from_cpu |-> 0,
           ret |-> 0, query |-> "none", applied |-> "none", handed |-> {},
           cpu_before |-> 0, cache_before |-> {}, kmask_before |-> {}]

\* ------------------------------------------------------------------ inputs

Alphabet == {DigitChars[n + 1] : n \in 0..MaxCpus} \cup {",", "-", " ", "a"}

ArbStrings == UNION {[1..n -> Alphabet] : n \in 0..MaxLen}

\* One item of the grammar, as written: <<n>> is "N", <<lo, hi>> is "LO-HI".
RenderItem(it) ==
    IF Len(it) = 1 THEN Str(it[1]) ELSE Str(it[1]) \o <<"-">> \o Str(it[2])

RECURSIVE RenderList(_)
RenderList(its) ==
    IF Len(its) = 1 THEN RenderItem(its[1])
    ELSE RenderItem(its[1]) \o <<",">> \o RenderList(Tail(its))

\* The items N and LO-HI with 0 <= N < max and 0 <= LO <= HI < max.
ValidItems(max) ==
    {<<n>> : n \in 0..(max - 1)}
    \cup {it \in (0..(max - 1)) \X (0..(max - 1)) : it[1] <= it[2]}

ItemLists(max) == UNION {[1..n -> ValidItems(max)] : n \in 1..MaxItems}

\* The inputs the spec names as rejected.
RejectedInputs(max) ==
    { <<>>, <<",">>, <<"1", ",", ",", "2">>, <<"-", "3">>, <<"3", "-">>,
      <<"3", "-", "1">>, <<"a">>, <<"3", " ">>, Str(max) }

NoItems == <<>>

\* <<max_cpus, arg, items>>: arbitrary strings, the named inputs, every
\* conforming list of up to MaxItems items, and the spec's two examples.
ParseInputs ==
    {<<MaxCpus, s, NoItems>> : s \in ArbStrings \cup RejectedInputs(MaxCpus)}
    \cup {<<MaxCpus, RenderList(l), l>> : l \in ItemLists(MaxCpus)}
    \cup { <<8, <<"2", ",", "2", ",", "3", "-", "5", ",", "4">>,
             << <<2>>, <<2>>, <<3, 5>>, <<4>> >> >>,
           <<4, <<"0", ",", "2", "-", "3">>, << <<0>>, <<2, 3>> >> >> }

\* ----------------------------------------------------------------- actions

\* stress_set_cpu_affinity(arg), an invalid argument: _exit(EXIT_FAILURE)
\* before the kernel is asked; nothing is cached.
BindInvalid ==
    /\ proc = "start"
    /\ ParseArg(arg, max_cpus).exit
    /\ proc' = "exit_invalid"
    /\ UNCHANGED <<max_cpus, arg, items, stress_affinity_cpu_set, kmask, cur_cpu,
                   opt_change_cpu, last>>
    /\ UNCHANGED <<memcpy_vars, mt>>

\* stress_set_cpu_affinity(arg), sched_setaffinity() < 0: _exit(EXIT_FAILURE).
BindRefused ==
    /\ proc = "start"
    /\ ~ParseArg(arg, max_cpus).exit
    /\ proc' = "exit_kernel"
    /\ stress_affinity_cpu_set' =
          CacheAfterBind(FALSE, ParseArg(arg, max_cpus).set, stress_affinity_cpu_set)
    /\ UNCHANGED <<max_cpus, arg, items, kmask, cur_cpu, opt_change_cpu, last>>
    /\ UNCHANGED <<memcpy_vars, mt>>

\* stress_set_cpu_affinity(arg), the kernel took the set: it is cached.
BindOk ==
    /\ proc = "start"
    /\ LET r == ParseArg(arg, max_cpus)
       IN  /\ ~r.exit
           /\ ~KernelMustRefuse(r.set, max_cpus)
           /\ kmask' = r.set \cap Online(max_cpus)
           /\ cur_cpu' \in r.set \cap Online(max_cpus)
           /\ stress_affinity_cpu_set' =
                 CacheAfterBind(TRUE, r.set, stress_affinity_cpu_set)
    /\ proc' = "bound"
    /\ UNCHANGED <<max_cpus, arg, items, opt_change_cpu, last>>
    /\ UNCHANGED <<memcpy_vars, mt>>

stress_set_cpu_affinity == BindInvalid \/ BindRefused \/ BindOk

\* The arguments stress_change_cpu is called with: the negative sentinel, each
\* CPU, and one index past the last CPU.
OldCpus == -1..max_cpus

\* The working copy of the mask: the kernel's when nothing is cached.
WorkingMask ==
    IF Cardinality(stress_affinity_cpu_set) = 0 THEN kmask
    ELSE stress_affinity_cpu_set

FromCpu(old_cpu) == IF old_cpu < 0 THEN cur_cpu ELSE old_cpu

\* The mask handed to sched_setaffinity(0, ...).
HandedMask(old_cpu) ==
    IF old_cpu < 0 THEN WorkingMask ELSE ClearFromCpu(WorkingMask, old_cpu)

Observed(old_cpu, ret, query, applied) ==
    [called |-> TRUE, enabled |-> opt_change_cpu, old_cpu |-> old_cpu,
     from_cpu |-> IF query = "failed" \/ ~opt_change_cpu THEN 0 ELSE FromCpu(old_cpu),
     ret |-> ret, query |-> query, applied |-> applied,
     handed |-> IF applied = "none" THEN {} ELSE HandedMask(old_cpu),
     cpu_before |-> cur_cpu, cache_before |-> stress_affinity_cpu_set,
     kmask_before |-> kmask]

Running == proc \in {"bound", "unbound"}

\* stress_change_cpu(), --change-cpu not given: return old_cpu.
ChangeDisabled ==
    /\ Running
    /\ ~opt_change_cpu
    /\ \E old_cpu \in OldCpus : last' = Observed(old_cpu, old_cpu, "none", "none")
    /\ UNCHANGED <<max_cpus, arg, items, proc, stress_affinity_cpu_set, kmask,
                   cur_cpu, opt_change_cpu>>
    /\ UNCHANGED <<memcpy_vars, mt>>

\* stress_change_cpu(), nothing cached and sched_getaffinity() < 0: return
\* old_cpu ("no dice").
ChangeQueryFailed ==
    /\ Running
    /\ opt_change_cpu
    /\ Cardinality(stress_affinity_cpu_set) = 0
    /\ \E old_cpu \in OldCpus : last' = Observed(old_cpu, old_cpu, "failed", "none")
    /\ UNCHANGED <<max_cpus, arg, items, proc, stress_affinity_cpu_set, kmask,
                   cur_cpu, opt_change_cpu>>
    /\ UNCHANGED <<memcpy_vars, mt>>

\* stress_change_cpu(), sched_setaffinity() < 0: return from_cpu.
ChangeRefused ==
    /\ Running
    /\ opt_change_cpu
    /\ \E old_cpu \in OldCpus :
          last' = Observed(old_cpu, RefusedReturn(old_cpu, FromCpu(old_cpu)),
                           IF Cardinality(stress_affinity_cpu_set) = 0
                           THEN "ok" ELSE "none",
                           "refused")
    /\ UNCHANGED <<max_cpus, arg, items, proc, stress_affinity_cpu_set, kmask,
                   cur_cpu, opt_change_cpu>>
    /\ UNCHANGED <<memcpy_vars, mt>>

\* stress_change_cpu(), the kernel took the mask: the process runs on one of
\* its CPUs, and stress_get_cpu() is returned.
ChangeMoved ==
    /\ Running
    /\ opt_change_cpu
    /\ \E old_cpu \in OldCpus :
          /\ ~KernelMustRefuse(HandedMask(old_cpu), max_cpus)
          /\ kmask' = HandedMask(old_cpu) \cap Online(max_cpus)
          /\ cur_cpu' \in HandedMask(old_cpu) \cap Online(max_cpus)
          /\ last' = Observed(old_cpu, cur_cpu',
                              IF Cardinality(stress_affinity_cpu_set) = 0
                              THEN "ok" ELSE "none",
                              "ok")
    /\ UNCHANGED <<max_cpus, arg, items, proc, stress_affinity_cpu_set,
                   opt_change_cpu>>
    /\ UNCHANGED <<memcpy_vars, mt>>

stress_change_cpu ==
    ChangeDisabled \/ ChangeQueryFailed \/ ChangeRefused \/ ChangeMoved

\* The scheduler moves the process to another CPU of its mask.
Reschedule ==
    /\ Running
    /\ cur_cpu' \in kmask \ {cur_cpu}
    /\ UNCHANGED <<max_cpus, arg, items, proc, stress_affinity_cpu_set, kmask,
                   opt_change_cpu, last>>
    /\ UNCHANGED <<memcpy_vars, mt>>

InitMachine ==
    /\ stress_affinity_cpu_set = {}
    /\ kmask = Online(max_cpus)
    /\ cur_cpu \in Online(max_cpus)
    /\ last = NoCall

\* ----------------------------------------------------- the memcpy stressor

\* str1 = buf; str2 = str1 + MEMCPY_MEMSIZE; str3 = str2 + MEMCPY_MEMSIZE
Str1 == 0
Str2 == Str1 + MEMCPY_MEMSIZE
Str3 == Str2 + MEMCPY_MEMSIZE

BufAddrs == 0..(3 * MEMCPY_MEMSIZE - 1)

NoFails == [content |-> {}, retptr |-> {}]

\* One turn of stress_memcpy's do-while: memcpy_method->func(str1, str2, str3)
\* and inc_counter.  The "all" method calls the method its cursor names and
\* moves the cursor; every method stores its name and runs its loop.
StressLoop ==
    /\ calls < MaxCalls
    /\ LET callee == IF method = "all" THEN stress_memcpy_all_callee(whence)
                     ELSE method
           r == MethodFunc(callee, verify, buf, Str1, Str2, Str3)
       IN  /\ buf' = r.mem
           /\ s_method_name' = callee
           /\ fails' = [content |-> r.content, retptr |-> r.retptr]
    /\ whence' = IF method = "all" THEN stress_memcpy_all_whence(whence) ELSE whence
    /\ calls' = calls + 1
    /\ UNCHANGED <<method, verify, affinity_vars, mt>>

\* The stressor before its first method call, on the region buf0.
InitStressor(buf0) ==
    /\ buf = buf0
    /\ method \in MethodNames
    /\ whence = 0
    /\ s_method_name = ""
    /\ calls = 0
    /\ fails = NoFails

\* mmap(MAP_ANONYMOUS) gives zero bytes; stress_rndbuf(str3, ALIGN_SIZE) then
\* seeds the first ALIGN_SIZE bytes of str3.
MappedBufs ==
    {[a \in BufAddrs |-> IF a >= Str3 /\ a < Str3 + ALIGN_SIZE THEN seed[a - Str3] ELSE 0] :
        seed \in [0..(ALIGN_SIZE - 1) -> Byte]}

\* Buffers of other contents, for the method functions alone: str2 holds any
\* bytes, str1 a fill, and str3 a fill or a seeded region.
Fills == { [i \in 0..(MEMCPY_MEMSIZE - 1) |-> 0],
           [i \in 0..(MEMCPY_MEMSIZE - 1) |-> 1],
           [i \in 0..(MEMCPY_MEMSIZE - 1) |-> i % 2] }

Seeded == {[i \in 0..(MEMCPY_MEMSIZE - 1) |-> IF i < ALIGN_SIZE THEN seed[i] ELSE 0] :
              seed \in [0..(ALIGN_SIZE - 1) -> Byte]}

AnyBufs ==
    {[a \in BufAddrs |-> IF a < Str2 THEN f1[a]
                         ELSE IF a < Str3 THEN f2[a - Str2] ELSE f3[a - Str3]] :
        f1 \in Fills,
        f2 \in [0..(MEMCPY_MEMSIZE - 1) -> Byte],
        f3 \in Fills \cup Seeded}

\* ------------------------------------------------------ the naive move alone

NoMove == [done |-> FALSE, mem |-> <<>>, pre |-> <<>>, dest |-> 0, src |-> 0,
           n |-> 0, ret |-> 0]

\* test_naive_memmove(dest, src, n) on the memory mt.mem.
NaiveMove ==
    /\ ~mt.done
    /\ mt.mem # <<>>
    /\ LET r == test_naive_memmove(mt.mem, mt.dest, mt.src, mt.n)
       IN  mt' = [mt EXCEPT !.done = TRUE, !.mem = r.mem, !.ret = r.ret]
    /\ UNCHANGED <<affinity_vars, memcpy_vars>>

\* Every memory of MoveLen bytes, and every dest, src and n within it.
InitMove ==
    \E m \in [0..(MoveLen - 1) -> Byte], d \in 0..(MoveLen - 1), s \in 0..(MoveLen - 1) :
        \E n \in 0..(MoveLen - (IF d > s THEN d ELSE s)) :
            mt = [done |-> FALSE, mem |-> m, pre |-> m, dest |-> d, src |-> s,
                  n |-> n, ret |-> -1]

\* ----------------------------------------------------------- specifications

\* The parts of the state a specification does not use.
AffinityIdle ==
    /\ max_cpus = MaxCpus /\ arg = <<>> /\ items = NoItems
    /\ proc = "unbound" /\ stress_affinity_cpu_set = {}
    /\ kmask = Online(MaxCpus) /\ cur_cpu = 0
    /\ opt_change_cpu = FALSE /\ last = NoCall

MemcpyIdle ==
    /\ buf = [a \in BufAddrs |-> 0] /\ method = "all" /\ verify = FALSE
    /\ whence = 0 /\ s_method_name = "" /\ calls = 0 /\ fails = NoFails

MoveIdle == mt = NoMove

\* The parser and binder alone, over every enumerated argument.
InitParse ==
    /\ \E t \in ParseInputs : max_cpus = t[1] /\ arg = t[2] /\ items = t[3]
    /\ proc = "start"
    /\ opt_change_cpu = FALSE
    /\ InitMachine
    /\ MemcpyIdle /\ MoveIdle

NextParse == stress_set_cpu_affinity

SpecParse == InitParse /\ [][NextParse]_vars

\* The arguments of the affinity specification: every single item, the named
\* inputs, and the spec's example list.
AffinityInputs ==
    {<<MaxCpus, s, NoItems>> : s \in RejectedInputs(MaxCpus)}
    \cup {<<MaxCpus, RenderList(<<it>>), <<it>>>> : it \in ValidItems(MaxCpus)}
    \cup { <<4, <<"0", ",", "2", "-", "3">>, << <<0>>, <<2, 3>> >> >> }

\* A process that parses --taskset and then runs, or runs without one, with
\* or without --change-cpu.
InitAffinity ==
    /\ \/ /\ proc = "start"
          /\ \E t \in AffinityInputs :
                max_cpus = t[1] /\ arg = t[2] /\ items = t[3]
       \/ /\ proc = "unbound"
          /\ max_cpus = MaxCpus /\ arg = <<>> /\ items = NoItems
    /\ opt_change_cpu \in BOOLEAN
    /\ InitMachine
    /\ MemcpyIdle /\ MoveIdle

NextAffinity == stress_set_cpu_affinity \/ stress_change_cpu \/ Reschedule

SpecAffinity == InitAffinity /\ [][NextAffinity]_vars

\* stress_memcpy() as the harness runs it: the mapped and seeded region, any
\* method setting, with or without --verify.
InitMemcpy ==
    /\ \E b \in MappedBufs : InitStressor(b)
    /\ verify \in BOOLEAN
    /\ AffinityIdle /\ MoveIdle

NextMemcpy == StressLoop

SpecMemcpy == InitMemcpy /\ [][NextMemcpy]_vars

\* The method functions on buffers of any contents, with verification on.
InitPattern ==
    /\ \E b \in AnyBufs : InitStressor(b)
    /\ verify = TRUE
    /\ AffinityIdle /\ MoveIdle

SpecPattern == InitPattern /\ [][NextMemcpy]_vars

\* The naive move on its own.
InitNaiveMove == InitMove /\ AffinityIdle /\ MemcpyIdle

NextMove == NaiveMove

SpecMove == InitNaiveMove /\ [][NextMove]_vars

\* ------------------------------------------------- claims: parser and binder

ItemSet(it) == it[1]..it[Len(it)]

UnionOfItems(its) == UNION {ItemSet(its[i]) : i \in 1..Len(its)}

\* C1: an argument written from items N and LO-HI (LO <= HI), all within
\* [0, max_cpus), is never rejected by the parser, and once the kernel took
\* it the set that was applied and cached is exactly the union of the items.
C1_MaskIsUnionOfItems ==
    items # NoItems =>
        /\ proc # "exit_invalid"
        /\ proc = "bound" =>
              /\ stress_affinity_cpu_set = UnionOfItems(items)
              /\ kmask = UnionOfItems(items)

\* C1's case: "2,2,3-5,4" with max_cpus = 8 was bound and gave {2,3,4,5}.
C1_Witness ==
    /\ proc = "bound"
    /\ max_cpus = 8
    /\ arg = <<"2", ",", "2", ",", "3", "-", "5", ",", "4">>
    /\ stress_affinity_cpu_set = {2, 3, 4, 5}

\* C2: each of "", ",", "1,,2", "-3", "3-", "3-1", "a", "3 " and the decimal
\* string of max_cpus is rejected: the process is never bound with it and
\* nothing is cached.
C2_NamedInputsRejected ==
    arg \in RejectedInputs(max_cpus) =>
        /\ proc # "bound"
        /\ stress_affinity_cpu_set = {}

\* C3: the cached set is empty until a bind succeeded (a bind that exits,
\* for an invalid argument or a refusing kernel, leaves it so), and after a
\* successful bind it is never empty and holds only CPUs c with
\* 0 <= c < max_cpus.
C3_CacheLifecycle ==
    /\ proc \in {"start", "unbound", "exit_invalid", "exit_kernel"} =>
          stress_affinity_cpu_set = {}
    /\ proc = "bound" =>
          /\ Cardinality(stress_affinity_cpu_set) >= 1
          /\ \A c \in stress_affinity_cpu_set : 0 <= c /\ c < max_cpus
          /\ stress_affinity_cpu_set = ParseArg(arg, max_cpus).set

\* C3's case: a bind succeeded and the process has migrated since.
C3_Witness ==
    /\ proc = "bound"
    /\ stress_affinity_cpu_set = {0, 2, 3}
    /\ last.called /\ last.applied = "ok"

\* ---------------------------------------------------------- claims: migrate

\* C4 as stated: with --change-cpu and a cached mask M, a call returns a CPU
\* of M when M has one CPU, for every input; when M has two or more and the
\* input x is a CPU of M, it returns a CPU of M \ {x} if the kernel took the
\* mask and x otherwise.
C4_Original ==
    (last.called /\ last.enabled /\ proc = "bound") =>
        LET M == last.cache_before
            x == last.old_cpu
        IN  /\ Cardinality(M) = 1 => last.ret \in M
            /\ (Cardinality(M) >= 2 /\ x >= 0 /\ x \in M) =>
                  IF last.applied = "ok" THEN last.ret \in M \ {x}
                  ELSE last.ret = x

\* C4 as amended: with one CPU in M the call returns a CPU of M when the
\* kernel took the mask or the input is negative, and the input itself when
\* the kernel refused and the input is not negative; the rest as stated.
C4_MigrateReturn ==
    (last.called /\ last.enabled /\ proc = "bound") =>
        LET M == last.cache_before
            x == last.old_cpu
        IN  /\ (Cardinality(M) = 1 /\ (last.applied = "ok" \/ x < 0)) =>
                  last.ret \in M
            /\ (Cardinality(M) = 1 /\ last.applied = "refused" /\ x >= 0) =>
                  last.ret = x
            /\ (Cardinality(M) >= 2 /\ x >= 0 /\ x \in M) =>
                  IF last.applied = "ok" THEN last.ret \in M \ {x}
                  ELSE last.ret = x

\* C4's case: cached {0,2,3}, migrate(2) on a kernel that took the mask.
C4_Witness ==
    /\ proc = "bound"
    /\ last.called /\ last.enabled
    /\ last.cache_before = {0, 2, 3}
    /\ last.old_cpu = 2
    /\ last.applied = "ok"
    /\ last.ret \in {0, 3}

\* C5: a call never ends the process; when sched_setaffinity refuses, it
\* returns the input if that is not negative and the CPU the process was on
\* otherwise; when nothing is cached and sched_getaffinity fails, it returns
\* the input; in both cases the kernel's mask is as before.
C5_RefusalReturnsUnmigrated ==
    (last.called /\ last.enabled) =>
        /\ Running
        /\ last.applied = "refused" =>
              /\ last.ret = IF last.old_cpu >= 0 THEN last.old_cpu
                            ELSE last.cpu_before
              /\ kmask = last.kmask_before
        /\ last.query = "failed" =>
              /\ last.cache_before = {}
              /\ last.applied = "none"
              /\ last.ret = last.old_cpu
              /\ kmask = last.kmask_before

\* C5's case: the sentinel was passed, the kernel refused, and the CPU the
\* process was on came back.
C5_Witness ==
    /\ last.called /\ last.enabled
    /\ last.old_cpu < 0
    /\ last.applied = "refused"
    /\ last.ret = last.cpu_before
    /\ last.ret # last.old_cpu

\* C10: after a successful bind with cached mask M, a call leaves the cache
\* as it was, and a mask it hands to the kernel is not empty, lies in M, and
\* is M without the input's bit when the input is not negative and M has
\* more than one bit, and M itself otherwise: whatever earlier calls did.
C10_HandedMask ==
    (last.called /\ last.enabled /\ proc = "bound") =>
        LET M == last.cache_before
            x == last.old_cpu
        IN  /\ stress_affinity_cpu_set = M
            /\ last.applied # "none"
            /\ last.handed # {}
            /\ last.handed \subseteq M
            /\ (M \ last.handed) \subseteq {last.from_cpu}
            /\ last.handed = IF x >= 0 /\ Cardinality(M) > 1 THEN M \ {x} ELSE M

\* C10's case: an earlier call had narrowed the kernel's mask to {2,3}; the
\* next one, migrate(2), handed {0,3}: M less one bit, not the narrowed mask.
C10_Witness ==
    /\ proc = "bound"
    /\ last.called /\ last.enabled
    /\ last.cache_before = {0, 2, 3}
    /\ last.kmask_before = {2, 3}
    /\ last.old_cpu = 2
    /\ last.handed = {0, 3}

\* ------------------------------------------------- claims: memcpy stressor

\* The order the spec gives for "all".
AllOrder == <<"libc", "builtin", "naive", "naive_o0", "naive_o3">>

\* C6: with the "all" method, the k-th call (k >= 1) runs the method at
\* position (k-1) mod 5 of libc, builtin, naive, naive_o0, naive_o3; the
\* cursor stays in 0..4; naive_o1 and naive_o2 are never run.
C6_AllRoundRobin ==
    method = "all" =>
        /\ whence \in 0..4
        /\ whence = calls % Len(AllOrder)
        /\ s_method_name \notin {"naive_o1", "naive_o2"}
        /\ calls >= 1 => s_method_name = AllOrder[((calls - 1) % Len(AllOrder)) + 1]

\* C6's case: the sixth call of "all" ran libc again.
C6_Witness ==
    /\ method = "all"
    /\ calls = 6
    /\ s_method_name = "libc"
    /\ whence = 1

Bytes(base) == [i \in 0..(MEMCPY_MEMSIZE - 1) |-> buf[base + i]]

\* C7 as stated: after a method call on buffers of any contents, str3 equals
\* str1 over [0, N), and str1, str2 and str3 hold the same bytes.
C7_Original ==
    calls >= 1 =>
        /\ Bytes(Str3) = Bytes(Str1)
        /\ Bytes(Str1) = Bytes(Str2)

\* C7 as amended: after a method call on buffers of any contents, str1 and
\* str2 hold the same bytes, str3 equals str1 over [0, N-1), and the last
\* byte of str3 is byte N-2 of str1.
C7_AfterPattern ==
    calls >= 1 =>
        /\ Bytes(Str1) = Bytes(Str2)
        /\ \A i \in 0..(MEMCPY_MEMSIZE - 2) : buf[Str3 + i] = buf[Str1 + i]
        /\ buf[Str3 + MEMCPY_MEMSIZE - 1] = buf[Str1 + MEMCPY_MEMSIZE - 2]

\* C7's case: one call of the naive method, on contents whose last two bytes
\* differ, so that str3 ends unlike str1.
C7_Witness ==
    /\ calls = 1
    /\ s_method_name = "naive"
    /\ buf[Str1 + MEMCPY_MEMSIZE - 1] # buf[Str1 + MEMCPY_MEMSIZE - 2]
    /\ buf[Str3 + MEMCPY_MEMSIZE - 1] # buf[Str1 + MEMCPY_MEMSIZE - 1]

C9_NaiveMoveContract ==
    mt.done =>
        /\ \A i \in 0..(mt.n - 1) : mt.mem[mt.dest + i] = mt.pre[mt.src + i]
        /\ \A a \in DOMAIN mt.mem :
              (a < mt.dest \/ a >= mt.dest + mt.n) => mt.mem[a] = mt.pre[a]
        /\ mt.ret = mt.dest

\* C9's case: dest lies after src inside src[0..n) (the reverse loop), and
\* the move changed the memory.
C9_Witness ==
    /\ mt.done
    /\ mt.dest > mt.src
    /\ mt.dest < mt.src + mt.n
    /\ mt.mem # mt.pre

====
